---- MODULE Spec2Model ----
(***************************************************************************)
(* The playback controller of ffmpeg-audio-player (src/audio-player.ts,    *)
(* class Player) as a state machine.  One action per public method, per    *)
(* asynchronous continuation of play() and per decoder / sink / timer      *)
(* callback.  Every handler is an operator from a program state (a record  *)
(* of the Player's fields and of the resources it created) to the program  *)
(* state after the handler, composed in the order of the source lines.     *)
(***************************************************************************)
EXTENDS Integers, Sequences, FiniteSets, TLC

\* ------------------------------------------------------------- bounds
\* public method calls made by the caller in one run
MaxOps == 2
\* longest initial queue of the undisturbed playthrough (SpecNatural)
MaxNatural == 3
\* the longest initial queue of the runs with one play() call
MaxQueue == 2
\* the number of queue method calls in the runs of the queue alone
MaxQueueOps == 5
\* the number of detector method calls in the runs of the detector alone
MaxDetectorOps == 4

\* Slots of the table of Speaker / FfmpegCommand pairs that still have callbacks
\* to come: one per play() the caller began and per entry of the longest queue.
NSlots == MaxOps + 2

\* ------------------------------------------------------------- values
NULL == "null"
NoRef == "noref"
GoodTracks == {"A", "B"}
MissingTracks == {"M", "N"}
UnreadableTracks == {"X"}
Tracks == GoodTracks \cup MissingTracks \cup UnreadableTracks

\* The queues a run may start with, and the references the caller passes.
InitialQueues == {<<>>, <<"A", "B">>, <<"M", "A">>, <<"X", "A">>, <<"M", "M">>}
Refs == {NoRef, "A", "M"}

\* `filePath || ...`, `if (!trackToPlay)`, `if (nextTrack)`: undefined is falsy.
Falsy(x) == x = NoRef \/ x = NULL

\* fs.existsSync(trackToPlay)
existsSync(t) == t \notin MissingTracks

\* ffmpeg.ffprobe(filePath, ...) finds an audio stream
probeOk(t) == t \notin UnreadableTracks

RECURSIVE SeqsUpTo(_, _)
SeqsUpTo(S, n) ==
    IF n = 0 THEN {<<>>}
    ELSE LET shorter == SeqsUpTo(S, n - 1)
         IN shorter \cup {Append(q, t) : q \in {x \in shorter : Len(x) = n - 1}, t \in S}

VARIABLES
    audioQueue,          \* the IAudioQueue's entries, head first
    isPlaying, isPaused, currentTrack,
    ffmpegCommand,       \* slot of this.ffmpegCommand, 0 for null
    speaker,             \* slot of this.speaker, 0 for null
    startTime,           \* 0, or 1 for a Date.now() value
    progressInterval,    \* TRUE while the setInterval handle is held
    isStoppingIntentionally,
    isFFmpegConfigured,
    listening,           \* FALSE once removeAllListeners() ran
    sess,                \* the Speaker / FfmpegCommand pairs with callbacks to come
    cfgQ,                \* play() calls suspended at `await configureFFmpeg()`
    probing,             \* play() calls suspended at `await getAudioMetadata()`
    timers,              \* pending setTimeout(() => play(arg), 100), oldest first
    playRejected,        \* a play() promise was rejected
    binOk,               \* the detector finds usable ffmpeg / ffprobe binaries
    nOps,                \* number of public method calls made by the caller
    faulted,             \* the decoder or the output device has failed by itself
    \* what the last step did, for the properties
    last,                \* <<label of the step, a stop() tore down the pair it is about>>
    emitted,             \* the public events the step emitted, in order
    killObs,             \* the latch values at the step's kill() and end() calls
    quiet,               \* a stop() was accepted and the caller has not since
                         \* called play(), skip() or resume()
    \* the whole run, kept by the specifications that need it
    keepHistory,
    queue0,              \* the initial queue
    arg0,                \* the argument of the caller's play()
    returned,            \* what the last queue method returned
    snapshot,            \* the array the caller got from list()
    detector,            \* the fields of the FFmpegDetector
    onPath,              \* which of the commands ffmpeg, ffprobe `which` finds
    detected,            \* what the last detector method returned
    history              \* all public events so far

vars == <<audioQueue, isPlaying, isPaused, currentTrack, ffmpegCommand, speaker,
          startTime, progressInterval, isStoppingIntentionally, isFFmpegConfigured,
          listening, sess, cfgQ, probing, timers, playRejected, binOk,
          nOps, faulted, last, emitted, killObs, quiet, keepHistory, queue0, arg0,
          returned, snapshot, detector, onPath, detected, history>>

\* The program state a handler starts from.
State ==
    [queue |-> audioQueue, isPlaying |-> isPlaying, isPaused |-> isPaused,
     currentTrack |-> currentTrack, ffmpegCommand |-> ffmpegCommand,
     speaker |-> speaker, startTime |-> startTime,
     progressInterval |-> progressInterval, latch |-> isStoppingIntentionally,
     configured |-> isFFmpegConfigured, listening |-> listening,
     sess |-> sess, cfgQ |-> cfgQ, probing |-> probing, timers |-> timers,
     playRejected |-> playRejected, history |-> history,
     emitted |-> <<>>, killObs |-> {}]

\* --------------------------------------------------- EventEmitter, queue

\* this.emit(name, payload): delivered to the listeners still attached.
emit(s, name, arg) ==
    IF s.listening
    THEN [s EXCEPT !.emitted = Append(@, <<name, arg>>),
                   !.history = IF keepHistory THEN Append(@, <<name, arg>>) ELSE @]
    ELSE s

\* add(filePath) putting the file at the front
addFront(q, f) == <<f>> \o q

\* IAudioQueue.add(filePath): push to the end of the queue.
add(q, f) == Append(q, f)

\* IAudioQueue.peek(): the next file, not removed; undefined when empty.
peek(q) == IF q = <<>> THEN NULL ELSE q[1]

\* list() handing out the queue's own array
listAlias(q) == [alias |-> TRUE, items |-> q]

\* IAudioQueue.list(): the current queue as an array of its own.
list(q) == [alias |-> FALSE, items |-> q]

\* IAudioQueue.clear()
clear(q) == <<>>

\* the caller holds no array
NoSnapshot == [alias |-> FALSE, items |-> <<>>]

\* IAudioQueue.getNext(): the head, or undefined when empty.
getNextValue(q) == IF q = <<>> THEN NULL ELSE Head(q)

\* the queue after getNext()
getNextRest(q) == IF q = <<>> THEN q ELSE Tail(q)

\* ------------------------------------------------------- FFmpegDetector

Commands == {"ffmpeg", "ffprobe"}

\* custom paths a caller may give: files that exist, files that do not
CustomPaths == [ffmpeg : {NULL, "/opt/ffmpeg", "/gone/ffmpeg"},
                ffprobe : {NULL, "/opt/ffprobe", "/gone/ffprobe"}]

\* existsSync on a binary path
binaryExists(path) == path \in {"/opt/ffmpeg", "/opt/ffprobe"}

\* no FFmpegPaths object: _cachedPaths = null, or a method that returns nothing
NoPaths == [ffmpeg |-> NULL, ffprobe |-> NULL, isNative |-> FALSE]

\* the method threw instead of returning an FFmpegPaths object
Throws == [ffmpeg |-> "throws", ffprobe |-> "throws", isNative |-> FALSE]

\* the field initialisers of FFmpegDetector
NewDetector == [customFfmpegPath |-> NULL, customFfprobePath |-> NULL,
                cachedPaths |-> NoPaths]

NativePaths == [ffmpeg |-> "ffmpeg", ffprobe |-> "ffprobe", isNative |-> TRUE]

CustomPathsOf(d) ==
    [ffmpeg |-> d.customFfmpegPath, ffprobe |-> d.customFfprobePath, isNative |-> FALSE]

\* FFmpegDetector.clearCache
clearCache(d) == [d EXCEPT !.cachedPaths = NoPaths]

\* FFmpegDetector.setCustomPaths
setCustomPaths(d, ffmpegPath, ffprobePath) ==
    clearCache([d EXCEPT !.customFfmpegPath = ffmpegPath,
                         !.customFfprobePath = ffprobePath])

\* FFmpegDetector.commandExists
commandExists(env, command) == env[command]

\* FFmpegDetector.customBinariesExist
customBinariesExist(d) ==
    [ffmpeg |-> d.customFfmpegPath # NULL /\ binaryExists(d.customFfmpegPath),
     ffprobe |-> d.customFfprobePath # NULL /\ binaryExists(d.customFfprobePath)]

\* FFmpegDetector.detectFFmpegPaths: what it returns
detectFFmpegPaths(d, env) ==
    IF d.cachedPaths # NoPaths THEN d.cachedPaths
    ELSE IF customBinariesExist(d).ffmpeg /\ customBinariesExist(d).ffprobe
         THEN CustomPathsOf(d)
    ELSE IF commandExists(env, "ffmpeg") /\ commandExists(env, "ffprobe")
         THEN NativePaths
    ELSE Throws

\* FFmpegDetector.forceNativeFFmpeg: what it returns
forceNativeFFmpeg(d, env) ==
    IF ~commandExists(env, "ffmpeg") \/ ~commandExists(env, "ffprobe") THEN Throws
    ELSE NativePaths

\* FFmpegDetector.forceCustomFFmpeg: what it returns
forceCustomFFmpeg(d) ==
    IF ~customBinariesExist(d).ffmpeg \/ ~customBinariesExist(d).ffprobe THEN Throws
    ELSE CustomPathsOf(d)

\* this._cachedPaths = result, unless the method threw
cache(d, result) ==
    IF result = Throws THEN d ELSE [d EXCEPT !.cachedPaths = result]

\* ------------------------------------------------------------ resources

\* A slot of the resource table that holds no Speaker / FfmpegCommand pair.
Free == [track |-> NULL, sink |-> "free", dec |-> "none", wae |-> FALSE,
         stopped |-> FALSE]

\* No callback of the pair is still to come.
Finished(r) == r.sink = "closed" /\ r.dec \in {"none", "done"} /\ ~r.wae

\* The table without the pairs that are finished and no longer referenced.
collect(s) ==
    [s EXCEPT !.sess = [i \in DOMAIN @ |->
        IF Finished(@[i]) /\ s.speaker # i /\ s.ffmpegCommand # i THEN Free ELSE @[i]]]

\* FfmpegCommand.kill('SIGKILL'): a running process is killed (its 'error'
\* callback follows); a process that has already exited is left as it is.
kill(r) == [r EXCEPT !.dec = IF @ = "run" THEN "killed" ELSE @]

\* Speaker.end(): 'close' follows.  A decoder that was still writing (running,
\* or sent SIGKILL a moment ago) may get one more chunk through the pipe.
endSink(r) ==
    [r EXCEPT !.sink = IF @ \in {"created", "open"} THEN "ending" ELSE @,
              !.wae = IF r.sink \in {"created", "open"} /\ r.dec \in {"run", "killed"}
                      THEN TRUE ELSE @]

stopProgressTracker(s) == [s EXCEPT !.progressInterval = FALSE]

startProgressTracker(s) == [stopProgressTracker(s) EXCEPT !.progressInterval = TRUE]

\* _cleanup killing the command without dropping its reference
cleanupFfmpegKeepsRef(s) ==
    IF s.ffmpegCommand # 0
    THEN [s EXCEPT !.sess[s.ffmpegCommand] = kill(@),
                   !.killObs = @ \cup {s.latch}]
    ELSE s

\* lines 362-365
cleanupFfmpeg(s) ==
    IF s.ffmpegCommand # 0
    THEN [s EXCEPT !.sess[s.ffmpegCommand] = kill(@), !.ffmpegCommand = 0,
                   !.killObs = @ \cup {s.latch}]
    ELSE s

\* lines 367-372
cleanupSpeaker(s) ==
    IF s.speaker # 0
    THEN [s EXCEPT !.sess[s.speaker] = endSink(@), !.speaker = 0,
                   !.killObs = @ \cup {s.latch}]
    ELSE s

\* _cleanup leaving currentTrack as it is
cleanupFieldsKeepTrack(s) ==
    [s EXCEPT !.isPlaying = FALSE, !.isPaused = FALSE, !.startTime = 0]

\* lines 374-377
cleanupFields(s) ==
    [s EXCEPT !.currentTrack = NULL, !.isPlaying = FALSE, !.isPaused = FALSE,
              !.startTime = 0]

\* _cleanup leaving the progress interval running
cleanupKeepsTicking(s) == cleanupFields(cleanupSpeaker(cleanupFfmpeg(s)))

\* Player._cleanup
cleanup(s) == cleanupFields(cleanupSpeaker(cleanupFfmpeg(stopProgressTracker(s))))

\* ------------------------------------------------------- public methods

\* play() without its isPlaying guard
playUnguarded(s, filePath) == [s EXCEPT !.cfgQ = Append(@, filePath)]

\* Player.play, up to `await this.configureFFmpeg()`.
play(s, filePath) ==
    IF s.isPlaying THEN s
    ELSE [s EXCEPT !.cfgQ = Append(@, filePath)]

\* line 268
setStopping(s) == [s EXCEPT !.latch = TRUE]

\* (for the properties) the pairs an accepted stop() tears down
noteStopped(s) ==
    [s EXCEPT !.sess = [i \in DOMAIN @ |->
        IF i = s.speaker \/ i = s.ffmpegCommand THEN [@[i] EXCEPT !.stopped = TRUE]
        ELSE @[i]]]

\* stop() without its isPlaying guard
stopUnguarded(s) == cleanup(setStopping(emit(noteStopped(s), "stop", s.currentTrack)))

\* stop() setting the latch after the teardown
stopLatchLate(s) ==
    IF ~s.isPlaying THEN s
    ELSE setStopping(cleanup(emit(noteStopped(s), "stop", s.currentTrack)))

\* Player.stop
stop(s) ==
    IF ~s.isPlaying THEN s
    ELSE cleanup(setStopping(emit(noteStopped(s), "stop", s.currentTrack)))

\* a pause() that keeps the session and only marks it paused
pauseInPlace(s) ==
    IF ~s.isPlaying THEN s
    ELSE [s EXCEPT !.isPaused = TRUE, !.isPlaying = FALSE]

\* Player.pause
pause(s) == stop(s)

\* setTimeout(() => this.play(arg), 100)
setTimeout(s, arg) == [s EXCEPT !.timers = Append(@, arg)]

\* skip() calling play() at once instead of after the delay
skipNoDelay(s) == play(stop(s), NoRef)

\* Player.skip
skip(s) == setTimeout(stop(s), NoRef)

\* Player.hasTrack
hasTrack(s) == s.currentTrack # NULL

\* Player.getCurrentProgress: 0, or the time since startTime ("elapsed";
\* pausedTime is never written)
getCurrentProgress(s) ==
    IF ~s.isPlaying THEN "0"
    ELSE IF s.isPaused THEN "0"
    ELSE "elapsed"

\* Player.resume
resume(s) ==
    IF ~s.isPlaying /\ s.currentTrack = NULL THEN play(s, NoRef)
    ELSE IF s.currentTrack # NULL /\ ~s.isPlaying THEN play(s, s.currentTrack)
    ELSE s

removeAllListeners(s) == [s EXCEPT !.listening = FALSE]

\* Player.destroy
destroy(s) == removeAllListeners(cleanup(s))

\* ------------------------------------------- continuations of play()

\* Player.configureFFmpeg returns (TRUE) or throws (FALSE).
configureOk(s) == s.configured \/ binOk

\* Player.configureFFmpeg, when it returns
configureFFmpeg(s) == [s EXCEPT !.configured = TRUE]

\* lines 171-175
setSession(s, track) ==
    [s EXCEPT !.currentTrack = track, !.isPlaying = TRUE, !.isPaused = FALSE,
              !.latch = FALSE]

\* getAudioMetadata(this.currentTrack) is called and play() suspends on it
startProbe(s) == [s EXCEPT !.probing[s.currentTrack] = @ + 1]

\* play() that does not retry after a missing file
playConfiguredNoRetry(s, filePath) ==
    IF ~configureOk(s) THEN [s EXCEPT !.playRejected = TRUE]
    ELSE
    LET s0 == configureFFmpeg(s)
        trackToPlay == IF ~Falsy(filePath) THEN filePath ELSE getNextValue(s0.queue)
        s1 == IF ~Falsy(filePath) THEN s0
              ELSE [s0 EXCEPT !.queue = getNextRest(@)]
    IN  IF Falsy(trackToPlay) THEN emit(s1, "queue-end", NULL)
        ELSE LET s2 == cleanup(s1)
             IN  IF ~existsSync(trackToPlay)
                 THEN emit(s2, "error", trackToPlay)
                 ELSE startProbe(setSession(s2, trackToPlay))

\* play() taking the next track before it knows that ffmpeg is configured
playConfiguredTakesFirst(s, filePath) ==
    IF ~configureOk(s)
    THEN [s EXCEPT !.playRejected = TRUE,
                   !.queue = IF Falsy(filePath) THEN getNextRest(@) ELSE @]
    ELSE playConfiguredNoRetry(s, filePath)

\* play() that retries after a missing file without reporting it
playConfiguredNoError(s, filePath) ==
    IF ~configureOk(s) THEN [s EXCEPT !.playRejected = TRUE]
    ELSE
    LET s0 == configureFFmpeg(s)
        trackToPlay == IF ~Falsy(filePath) THEN filePath ELSE getNextValue(s0.queue)
        s1 == IF ~Falsy(filePath) THEN s0
              ELSE [s0 EXCEPT !.queue = getNextRest(@)]
    IN  IF Falsy(trackToPlay) THEN emit(s1, "queue-end", NULL)
        ELSE LET s2 == cleanup(s1)
             IN  IF ~existsSync(trackToPlay)
                 THEN play(s2, NoRef)
                 ELSE startProbe(setSession(s2, trackToPlay))

\* Player.play from the return of `await this.configureFFmpeg()` (line 154)
\* to its next suspension or return.
playConfigured(s, filePath) ==
    IF ~configureOk(s) THEN [s EXCEPT !.playRejected = TRUE]
    ELSE
    LET s0 == configureFFmpeg(s)
        trackToPlay == IF ~Falsy(filePath) THEN filePath ELSE getNextValue(s0.queue)
        s1 == IF ~Falsy(filePath) THEN s0
              ELSE [s0 EXCEPT !.queue = getNextRest(@)]
    IN  IF Falsy(trackToPlay) THEN emit(s1, "queue-end", NULL)
        ELSE LET s2 == cleanup(s1)
             IN  IF ~existsSync(trackToPlay)
                 THEN play(emit(s2, "error", trackToPlay), NoRef)
                 ELSE startProbe(setSession(s2, trackToPlay))

\* new Speaker(...) with its three handlers attached (lines 183-211)
newSpeaker(s) ==
    LET i == CHOOSE k \in DOMAIN s.sess :
                 /\ s.sess[k] = Free
                 /\ \A j \in DOMAIN s.sess : s.sess[j] = Free => k <= j
    IN  [s EXCEPT !.sess[i] = [track |-> s.currentTrack, sink |-> "created",
                               dec |-> "none", wae |-> FALSE, stopped |-> FALSE],
                  !.speaker = i]

\* ffmpeg(this.currentTrack)...pipe(this.speaker) (lines 214-237); a command
\* built on a null input fails and reports it through its 'error' callback.
newFfmpeg(s) ==
    [s EXCEPT !.sess[s.speaker].dec = IF s.currentTrack = NULL THEN "failed" ELSE "run",
              !.ffmpegCommand = s.speaker]

\* the catch block without its _cleanup()
playCatchNoCleanup(s, what) == emit(s, "error", what)

\* the catch block of play() (lines 239-243)
playCatch(s, what) == cleanup(emit(s, "error", what))

\* Player.play from the settling of `await this.getAudioMetadata()` on.
\* nullThrows: ffmpeg(null) throws instead of building a failing command.
playProbed(s, track, nullThrows) ==
    LET s0 == [s EXCEPT !.probing[track] = @ - 1]
    IN  IF ~probeOk(track) THEN playCatch(s0, "probe")
        ELSE LET s1 == newSpeaker(s0)
             IN  IF s1.currentTrack = NULL /\ nullThrows THEN playCatch(s1, "setup")
                 ELSE newFfmpeg(s1)

\* ------------------------------------------------------------ callbacks

\* the setInterval callback of _startProgressTracker (lines 309-317)
onProgressTick(s) ==
    IF s.isPlaying /\ ~s.isPaused THEN emit(s, "progress", s.currentTrack)
    ELSE s

\* speaker.on('open')
onSpeakerOpen(s) ==
    startProgressTracker(emit([s EXCEPT !.startTime = 1], "start", s.currentTrack))

\* _handleTrackEnd scheduling play() without the track it took from the queue
handleTrackEndPlayNoArg(s) ==
    IF s.latch THEN s
    ELSE LET s1 == cleanup(emit(s, "end", s.currentTrack))
             nextTrack == getNextValue(s1.queue)
             s2 == [s1 EXCEPT !.queue = getNextRest(@)]
         IN  IF ~Falsy(nextTrack) THEN setTimeout(s2, NoRef)
             ELSE emit(s2, "queue-end", NULL)

\* _handleTrackEnd leaving the track it schedules in the queue
handleTrackEndNoRemove(s) ==
    IF s.latch THEN s
    ELSE LET s1 == cleanup(emit(s, "end", s.currentTrack))
             nextTrack == getNextValue(s1.queue)
         IN  IF ~Falsy(nextTrack) THEN setTimeout(s1, nextTrack)
             ELSE emit(s1, "queue-end", NULL)

\* Player._handleTrackEnd
handleTrackEnd(s) ==
    IF s.latch THEN s
    ELSE LET s1 == cleanup(emit(s, "end", s.currentTrack))
             nextTrack == getNextValue(s1.queue)
             s2 == [s1 EXCEPT !.queue = getNextRest(@)]
         IN  IF ~Falsy(nextTrack) THEN setTimeout(s2, nextTrack)
             ELSE emit(s2, "queue-end", NULL)

\* speaker.on('close')
onSpeakerClose(s) == handleTrackEnd(s)

\* the 'error' handler suppressing every error while the latch is set
onSpeakerErrorAnyCode(s, code) ==
    IF s.latch THEN s
    ELSE cleanup(emit(s, "error", code))

\* speaker.on('error')
onSpeakerError(s, code) ==
    IF s.latch /\ code = "ERR_STREAM_WRITE_AFTER_END" THEN s
    ELSE cleanup(emit(s, "error", code))

\* the 'error' handler clearing the latch when it suppresses the error
onFfmpegErrorResetsLatch(s) ==
    IF s.latch THEN [s EXCEPT !.latch = FALSE]
    ELSE cleanup(emit(s, "error", "ffmpeg"))

\* ffmpegCommand.on('error')
onFfmpegError(s) ==
    IF s.latch THEN s
    ELSE cleanup(emit(s, "error", "ffmpeg"))

\* ffmpegCommand.on('end')
onFfmpegEnd(s) == [s EXCEPT !.latch = FALSE]

\* ------------------------------------------------------------ steps

\* The step's successor state is the handler's result, finished pairs collected.
Apply(s) ==
    /\ audioQueue' = s.queue
    /\ isPlaying' = s.isPlaying
    /\ isPaused' = s.isPaused
    /\ currentTrack' = s.currentTrack
    /\ ffmpegCommand' = s.ffmpegCommand
    /\ speaker' = s.speaker
    /\ startTime' = s.startTime
    /\ progressInterval' = s.progressInterval
    /\ isStoppingIntentionally' = s.latch
    /\ isFFmpegConfigured' = s.configured
    /\ listening' = s.listening
    /\ sess' = collect(s).sess
    /\ cfgQ' = s.cfgQ
    /\ probing' = s.probing
    /\ timers' = s.timers
    /\ playRejected' = s.playRejected
    /\ emitted' = s.emitted
    /\ killObs' = s.killObs
    /\ history' = s.history
    /\ UNCHANGED <<binOk, keepHistory, queue0, arg0, returned, snapshot,
                   detector, onPath, detected>>

\* No play() call is suspended and no delayed play() is scheduled.
NoPlayInFlight ==
    /\ cfgQ = <<>>
    /\ timers = <<>>
    /\ \A t \in Tracks : probing[t] = 0

\* A public method call by the caller.  The caller may call at any point,
\* also between a play() call and its continuation, until it has destroyed
\* the player ("controller is unusable afterward").
Call(s, label, q) ==
    /\ nOps < MaxOps
    /\ listening
    /\ nOps' = nOps + 1
    /\ Apply(s)
    /\ last' = <<label, FALSE>>
    /\ quiet' = q
    /\ UNCHANGED faulted

\* A continuation or callback run by the event loop.
Run(s, label, i) ==
    /\ Apply(s)
    /\ last' = <<label, i # 0 /\ sess[i].stopped>>
    /\ UNCHANGED <<nOps, faulted, quiet>>

\* A spontaneous failure of the decoder process or of the output device, once
\* in a run.
Fault(s, label, i) ==
    /\ ~faulted
    /\ faulted' = TRUE
    /\ Apply(s)
    /\ last' = <<label, sess[i].stopped>>
    /\ UNCHANGED <<nOps, quiet>>

\* Timers and I/O callbacks run only when no promise continuation is pending.
Macrotask == cfgQ = <<>>

\* quiet after a stop(): "clean" when no play() was in flight at the stop
Stopped == IF NoPlayInFlight THEN "clean" ELSE "yes"

CallPlay ==
    \E ref \in Refs :
        Call(play(State, ref), "play", "no")

CallStop ==
    Call(stop(State), "stop", IF isPlaying THEN Stopped ELSE quiet)

CallPause ==
    Call(pause(State), "pause", IF isPlaying THEN Stopped ELSE quiet)

CallSkip == Call(skip(State), "skip", "no")

CallResume == Call(resume(State), "resume", "no")

CallDestroy == Call(destroy(State), "destroy", quiet)

\* The oldest suspended play() resumes after `await this.configureFFmpeg()`.
PlayConfigured ==
    /\ cfgQ # <<>>
    /\ Run(playConfigured([State EXCEPT !.cfgQ = Tail(@)], Head(cfgQ)), "configured", 0)

\* ffprobe reports; the play() suspended on it resumes.
PlayProbed ==
    /\ Macrotask
    /\ \E t \in Tracks, nullThrows \in BOOLEAN :
        /\ probing[t] > 0
        /\ nullThrows => currentTrack = NULL
        /\ Run(playProbed(State, t, nullThrows), "probed", 0)

\* The oldest timer fires: () => this.play(arg).
TimerFires ==
    /\ Macrotask
    /\ timers # <<>>
    /\ Run(play([State EXCEPT !.timers = Tail(@)], Head(timers)), "timer", 0)

Slots == DOMAIN sess

\* The first PCM chunk reaches the sink: Speaker emits 'open'.
SpeakerOpen ==
    /\ Macrotask
    /\ \E i \in Slots :
        /\ sess[i].sink = "created"
        /\ sess[i].dec = "run"
        /\ Run(onSpeakerOpen([State EXCEPT !.sess[i].sink = "open"]), "open", i)

\* The decoder reaches the end of its input: the process exits with code 0
\* and the pipe ends the sink ({ end: true }).  The 'end' callback is pending.
FfmpegFinishes ==
    /\ Macrotask
    /\ \E i \in Slots :
        /\ sess[i].dec = "run"
        /\ sess[i].sink = "open"
        /\ Run([State EXCEPT !.sess[i].dec = "exited", !.sess[i].sink = "ending"],
               "finishes", i)

\* The decoder fails by itself.  The 'error' callback is pending.
FfmpegFails ==
    /\ Macrotask
    /\ \E i \in Slots :
        /\ sess[i].dec = "run"
        /\ Fault([State EXCEPT !.sess[i].dec = "failed"], "fails", i)

FfmpegEnd ==
    /\ Macrotask
    /\ \E i \in Slots :
        /\ sess[i].dec = "exited"
        /\ Run(onFfmpegEnd([State EXCEPT !.sess[i].dec = "done"]), "ffmpeg_end", i)

FfmpegError ==
    /\ Macrotask
    /\ \E i \in Slots :
        /\ sess[i].dec \in {"killed", "failed"}
        /\ Run(onFfmpegError([State EXCEPT !.sess[i].dec = "done"]), "ffmpeg_error", i)

SpeakerClose ==
    /\ Macrotask
    /\ \E i \in Slots :
        /\ sess[i].sink = "ending"
        /\ Run(onSpeakerClose([State EXCEPT !.sess[i].sink = "closed",
                                             !.sess[i].wae = FALSE]), "close", i)

\* The killed decoder's last chunk is written into the ended sink, before the
\* sink closes.
SpeakerWriteAfterEnd ==
    /\ Macrotask
    /\ \E i \in Slots :
        /\ sess[i].wae
        /\ sess[i].sink = "ending"
        /\ Run(onSpeakerError([State EXCEPT !.sess[i].wae = FALSE],
                              "ERR_STREAM_WRITE_AFTER_END"), "sink_wae", i)

\* The output device fails while the sink is in use.
SpeakerFails ==
    /\ Macrotask
    /\ \E i \in Slots :
        /\ sess[i].sink \in {"created", "open"}
        /\ Fault(onSpeakerError(State, "EIO"), "sink_error", i)

\* --------------------------------------------------------------- Init

InitPlayer ==
    /\ isPlaying = FALSE
    /\ isPaused = FALSE
    /\ currentTrack = NULL
    /\ ffmpegCommand = 0
    /\ speaker = 0
    /\ startTime = 0
    /\ progressInterval = FALSE
    /\ isStoppingIntentionally = FALSE
    /\ isFFmpegConfigured = FALSE
    /\ listening = TRUE
    /\ sess = [i \in 1..NSlots |-> Free]
    /\ cfgQ = <<>>
    /\ probing = [t \in Tracks |-> 0]
    /\ timers = <<>>
    /\ playRejected = FALSE
    /\ nOps = 0
    /\ faulted = FALSE
    /\ last = <<"init", FALSE>>
    /\ emitted = <<>>
    /\ killObs = {}
    /\ quiet = "no"
    /\ history = <<>>
    /\ returned = NULL
    /\ snapshot = NoSnapshot
    /\ detector = NewDetector
    /\ detected = NoPaths

Init ==
    /\ InitPlayer
    /\ audioQueue \in InitialQueues
    /\ binOk \in BOOLEAN
    /\ onPath = [c \in Commands |-> binOk]
    /\ keepHistory = FALSE
    /\ queue0 = <<>>
    /\ arg0 = NoRef

Next ==
    \/ CallPlay
    \/ CallStop
    \/ CallPause
    \/ CallSkip
    \/ CallResume
    \/ CallDestroy
    \/ PlayConfigured
    \/ PlayProbed
    \/ TimerFires
    \/ SpeakerOpen
    \/ FfmpegFinishes
    \/ FfmpegEnd
    \/ FfmpegError
    \/ SpeakerClose
    \/ SpeakerWriteAfterEnd

\* Any caller, any order of callbacks, decoder and device without failures of
\* their own.
Spec == Init /\ [][Next]_vars

NextFaults ==
    \/ Next
    \/ FfmpegFails
    \/ SpeakerFails

\* The same with one spontaneous failure of the decoder or of the device.
SpecFaults == Init /\ [][NextFaults]_vars

\* The progress interval fires.
ProgressTick ==
    /\ Macrotask
    /\ progressInterval
    /\ Run(onProgressTick(State), "tick", 0)

NextProgress ==
    \/ Next
    \/ ProgressTick

\* Any caller, any order of callbacks, the progress interval firing at any
\* moment while it is set.
SpecProgress == Init /\ [][NextProgress]_vars

\* The caller calls play() once, on a fresh controller.
NaturalPlay ==
    /\ nOps = 0
    /\ Call(play(State, NoRef), "play", "no")

InitNatural ==
    /\ InitPlayer
    /\ audioQueue \in SeqsUpTo(GoodTracks, MaxNatural)
    /\ binOk = TRUE
    /\ onPath = [c \in Commands |-> binOk]
    /\ keepHistory = TRUE
    /\ queue0 = audioQueue
    /\ arg0 = NoRef

NextNatural ==
    \/ NaturalPlay
    \/ PlayConfigured
    \/ PlayProbed
    \/ TimerFires
    \/ SpeakerOpen
    \/ FfmpegFinishes
    \/ FfmpegEnd
    \/ SpeakerClose

\* A queue of playable tracks, one play(), then only natural completions.
SpecNatural == InitNatural /\ [][NextNatural]_vars

\* The caller calls play(arg0) once, on a fresh controller.
OnePlay ==
    /\ nOps = 0
    /\ Call(play(State, arg0), "play", "no")

InitOnePlay ==
    /\ InitPlayer
    /\ audioQueue \in SeqsUpTo(Tracks, MaxQueue)
    /\ binOk \in BOOLEAN
    /\ onPath = [c \in Commands |-> binOk]
    /\ keepHistory = TRUE
    /\ queue0 = audioQueue
    /\ arg0 \in Refs

NextOnePlay ==
    \/ OnePlay
    \/ PlayConfigured
    \/ PlayProbed
    \/ TimerFires
    \/ SpeakerOpen
    \/ FfmpegFinishes
    \/ FfmpegEnd
    \/ SpeakerClose

\* Any queue of playable, missing and unreadable files, one play() with or
\* without a track, then whatever follows without the caller.
SpecOnePlay == InitOnePlay /\ [][NextOnePlay]_vars

\* The event loop runs every continuation, timer and callback that is pending.
SpecOnePlayFair == SpecOnePlay /\ WF_vars(NextOnePlay)

\* The k-th call of a caller who makes its calls in a fixed order.
ScriptCall(s, label, k) ==
    /\ nOps = k
    /\ listening
    /\ nOps' = k + 1
    /\ Apply(s)
    /\ last' = <<label, FALSE>>
    /\ UNCHANGED <<faulted, quiet>>

ThenPause == ScriptCall(pause(State), "pause", 1)

ThenResume == ScriptCall(resume(State), "resume", 2)

InitPauseResume ==
    /\ InitPlayer
    /\ audioQueue \in InitialQueues
    /\ binOk = TRUE
    /\ onPath = [c \in Commands |-> binOk]
    /\ keepHistory = FALSE
    /\ queue0 = audioQueue
    /\ arg0 \in Refs

NextPauseResume ==
    \/ OnePlay
    \/ ThenPause
    \/ ThenResume
    \/ PlayConfigured
    \/ PlayProbed
    \/ TimerFires
    \/ SpeakerOpen
    \/ FfmpegFinishes
    \/ FfmpegEnd
    \/ FfmpegError
    \/ SpeakerClose
    \/ SpeakerWriteAfterEnd

\* The caller calls play(arg0), later pause(), later resume(), each at any
\* moment.
SpecPauseResume == InitPauseResume /\ [][NextPauseResume]_vars

\* ------------------------------------------------------ the queue alone

QueueFiles == GoodTracks

\* A call of a queue method: the Player is not involved.
QueueCall(label, wasEmpty) ==
    /\ nOps < MaxQueueOps
    /\ nOps' = nOps + 1
    /\ last' = <<label, wasEmpty>>
    /\ UNCHANGED <<isPlaying, isPaused, currentTrack, ffmpegCommand, speaker, startTime,
                   progressInterval, isStoppingIntentionally, isFFmpegConfigured,
                   listening, sess, cfgQ, probing, timers, playRejected, binOk,
                   faulted, emitted, killObs, quiet, keepHistory, arg0,
                   detector, onPath, detected>>

\* queue0: the files added since the last clear(); history: the files that
\* getNext() has returned since then.
QueueAdd ==
    \E f \in QueueFiles :
        /\ QueueCall("add", audioQueue = <<>>)
        /\ audioQueue' = add(audioQueue, f)
        /\ queue0' = Append(queue0, f)
        /\ returned' = NULL
        /\ UNCHANGED <<history, snapshot>>

QueueGetNext ==
    /\ QueueCall("getNext", audioQueue = <<>>)
    /\ returned' = getNextValue(audioQueue)
    /\ audioQueue' = getNextRest(audioQueue)
    /\ history' = IF getNextValue(audioQueue) = NULL THEN history
                  ELSE Append(history, <<"getNext", getNextValue(audioQueue)>>)
    /\ UNCHANGED <<queue0, snapshot>>

QueuePeek ==
    /\ QueueCall("peek", audioQueue = <<>>)
    /\ returned' = peek(audioQueue)
    /\ UNCHANGED <<audioQueue, queue0, history, snapshot>>

QueueList ==
    /\ QueueCall("list", audioQueue = <<>>)
    /\ snapshot' = list(audioQueue)
    /\ returned' = NULL
    /\ UNCHANGED <<audioQueue, queue0, history>>

QueueClear ==
    /\ QueueCall("clear", audioQueue = <<>>)
    /\ audioQueue' = clear(audioQueue)
    /\ queue0' = <<>>
    /\ history' = <<>>
    /\ returned' = NULL
    /\ UNCHANGED snapshot

\* The caller changes the array it got from list(): shift() or push(f).
SnapshotMutate ==
    \E items \in {Tail(snapshot.items) : x \in {1} \cap DOMAIN snapshot.items}
                 \cup {Append(snapshot.items, f) : f \in QueueFiles} :
        /\ QueueCall("mutate", audioQueue = <<>>)
        /\ snapshot' = [snapshot EXCEPT !.items = items]
        /\ audioQueue' = IF snapshot.alias THEN items ELSE audioQueue
        /\ returned' = NULL
        /\ UNCHANGED <<queue0, history>>

InitQueue ==
    /\ InitPlayer
    /\ audioQueue = <<>>
    /\ binOk = TRUE
    /\ onPath = [c \in Commands |-> binOk]
    /\ keepHistory = TRUE
    /\ queue0 = <<>>
    /\ arg0 = NoRef

NextQueue ==
    \/ QueueAdd
    \/ QueueGetNext
    \/ QueuePeek
    \/ QueueList
    \/ QueueClear
    \/ SnapshotMutate

\* Any sequence of calls of the queue's methods.
SpecQueue == InitQueue /\ [][NextQueue]_vars

\* --------------------------------------------------- the detector alone

\* A call of a detector method: Player and queue are not involved.
DetectorCall(label) ==
    /\ nOps < MaxDetectorOps
    /\ nOps' = nOps + 1
    /\ last' = <<label, FALSE>>
    /\ UNCHANGED <<audioQueue, isPlaying, isPaused, currentTrack, ffmpegCommand, speaker,
                   startTime, progressInterval, isStoppingIntentionally,
                   isFFmpegConfigured, listening, sess, cfgQ, probing, timers,
                   playRejected, binOk, faulted, emitted, killObs, quiet, keepHistory,
                   queue0, arg0, returned, snapshot, history, onPath>>

DetectorSetCustomPaths ==
    \E paths \in CustomPaths :
        /\ DetectorCall("setCustomPaths")
        /\ detector' = setCustomPaths(detector, paths.ffmpeg, paths.ffprobe)
        /\ detected' = NoPaths

DetectorDetect ==
    /\ DetectorCall("detect")
    /\ detected' = detectFFmpegPaths(detector, onPath)
    /\ detector' = cache(detector, detectFFmpegPaths(detector, onPath))

DetectorForceNative ==
    /\ DetectorCall("forceNative")
    /\ detected' = forceNativeFFmpeg(detector, onPath)
    /\ detector' = cache(detector, forceNativeFFmpeg(detector, onPath))

DetectorForceCustom ==
    /\ DetectorCall("forceCustom")
    /\ detected' = forceCustomFFmpeg(detector)
    /\ detector' = cache(detector, forceCustomFFmpeg(detector))

DetectorClearCache ==
    /\ DetectorCall("clearCache")
    /\ detector' = clearCache(detector)
    /\ detected' = NoPaths

InitDetector ==
    /\ InitPlayer
    /\ audioQueue = <<>>
    /\ onPath \in [Commands -> BOOLEAN]
    /\ binOk = (onPath["ffmpeg"] /\ onPath["ffprobe"])
    /\ keepHistory = FALSE
    /\ queue0 = <<>>
    /\ arg0 = NoRef

NextDetector ==
    \/ DetectorSetCustomPaths
    \/ DetectorDetect
    \/ DetectorForceNative
    \/ DetectorForceCustom
    \/ DetectorClearCache

\* Any sequence of calls of the detector's methods, the files and the PATH
\* staying as they are.
SpecDetector == InitDetector /\ [][NextDetector]_vars

\* ------------------------------------------------------------ properties

\* The step is a call of the public method `m` by the caller.
Called(m) == nOps' = nOps + 1 /\ last'[1] = m

\* Nothing of the Player, of its resources or of the queue changes.
PlayerUnchanged ==
    UNCHANGED <<audioQueue, isPlaying, isPaused, currentTrack, ffmpegCommand, speaker,
                startTime, progressInterval, isStoppingIntentionally,
                isFFmpegConfigured, listening, sess, cfgQ, probing, timers,
                playRejected>>

OpenDecoders == {i \in Slots : sess[i].dec = "run"}
OpenSinks == {i \in Slots : sess[i].sink \in {"created", "open"}}

\* C1: at most one decoder and at most one sink are open at any time.
C1_AtMostOneOpen == Cardinality(OpenDecoders) <= 1 /\ Cardinality(OpenSinks) <= 1

\* An earlier play() has been called and its sink has not opened.
Loading ==
    \/ cfgQ # <<>>
    \/ \E t \in Tracks : probing[t] > 0
    \/ speaker # 0 /\ sess[speaker].sink = "created"

\* C2: a play() called while an earlier play() is Loading is rejected: it is
\* not suspended for a continuation and it changes nothing.
C2_PlayWhileLoadingRejected ==
    [][Loading /\ Called("play") => PlayerUnchanged]_vars

\* C3: play() while isPlaying emits nothing and changes nothing.
C3_PlayWhilePlayingNoOp ==
    [][isPlaying /\ Called("play") => emitted' = <<>> /\ PlayerUnchanged]_vars

\* a play() was just rejected because a track is playing
C3_Witness == last[1] = "play" /\ isPlaying /\ audioQueue # <<>>

\* C4: stop() while not playing emits nothing, issues no kill() or end(),
\* leaves the latch and the queue as they are.
C4_StopWhileIdleNoOp ==
    [][~isPlaying /\ Called("stop")
        => emitted' = <<>> /\ killObs' = {} /\ PlayerUnchanged]_vars

\* a stop() was just called on an idle controller that has played before
C4_Witness ==
    last[1] = "stop" /\ emitted = <<>> /\ isFFmpegConfigured /\ ~isStoppingIntentionally

\* C5: every kill() and end() issued by stop(), pause() or skip() finds the
\* latch already set.
C5_LatchSetBeforeKill ==
    last[1] \in {"stop", "pause", "skip"} => killObs \subseteq {TRUE}

\* a skip() has just killed a decoder and ended a sink
C5_Witness == last[1] = "skip" /\ killObs = {TRUE}

\* the step emitted a public event `name`
Emitted(name) == \E k \in 1..Len(emitted) : emitted[k][1] = name

\* C6: a decoder 'error' callback or a sink write-after-end callback of a pair
\* that an accepted stop() tore down emits no public error event.
C6_StoppedSessionErrorSilent ==
    last[2] /\ last[1] \in {"ffmpeg_error", "sink_wae"} => ~Emitted("error")

\* C7: after an accepted stop(), while the caller has not called play(),
\* skip() or resume(), no callback of the stopped pair emits an end event or
\* removes a track from the queue.
C7_NoEndAfterStop ==
    [][quiet = "clean" /\ quiet' = "clean" /\ last'[2]
        => ~Emitted("end")' /\ audioQueue' = audioQueue]_vars

RECURSIVE Expected(_)
\* start{t1}, end{t1}, ..., start{tn}, end{tn}, queue-end
Expected(q) ==
    IF q = <<>> THEN << <<"queue-end", NULL>> >>
    ELSE << <<"start", Head(q)>>, <<"end", Head(q)>> >> \o Expected(Tail(q))

\* Nothing is pending: no continuation, no timer, no callback.
Quiescent ==
    /\ NoPlayInFlight
    /\ \A i \in Slots : sess[i] = Free \/ Finished(sess[i])

\* C9: the events of a run are always the beginning of start{t1}, end{t1},
\* ..., start{tn}, end{tn}, queue-end for the initial queue t1..tn, and are
\* all of it once the play() has been called and nothing is pending.
C9_FifoEventOrder ==
    /\ Len(history) <= Len(Expected(queue0))
    /\ history = SubSeq(Expected(queue0), 1, Len(history))
    /\ nOps = 1 /\ Quiescent => history = Expected(queue0)

\* a queue of two different tracks and one of the same track twice have been
\* played to the end
C9_Witness ==
    /\ Len(queue0) >= 2
    /\ Quiescent
    /\ history = Expected(queue0)

\* C10 as stated: every skip() emits a stop event.
C10_SkipAlwaysStops == last[1] = "skip" => Emitted("stop")

\* C10: skip() emits stop for the current track exactly when the controller
\* is playing, nothing when it is not, leaves it not playing, and in every
\* state schedules exactly one play() without a track after the delay.
C10_SkipStopsIfPlaying ==
    [][Called("skip")
        => /\ emitted' = IF isPlaying THEN << <<"stop", currentTrack>> >> ELSE <<>>
           /\ timers' = Append(timers, NoRef)
           /\ ~isPlaying'
           /\ cfgQ' = cfgQ]_vars

\* a skip() on a controller that is not playing: no stop event, a play() scheduled
C10_Witness == last[1] = "skip" /\ emitted = <<>> /\ timers # <<>> /\ isFFmpegConfigured

\* C11: once destroy() has been called, no callback of a Speaker or of an
\* ffmpeg command emits a public event, removes a track from the queue or
\* leaves a session behind.
C11_DestroyIsFinal ==
    [][(~listening /\ ~isPlaying /\
        last'[1] \in {"open", "close", "ffmpeg_end", "ffmpeg_error", "sink_wae"})
        => /\ emitted' = <<>>
           /\ audioQueue' = audioQueue
           /\ timers' = timers
           /\ ~isPlaying']_vars

\* play(ref) with a missing file while the head of the queue is playable
C12_Pre ==
    /\ binOk
    /\ arg0 \in MissingTracks
    /\ queue0 # <<>>
    /\ Head(queue0) \in GoodTracks

\* C12: play(ref) for a missing file, the head B of the queue playable: the
\* first event is the error for ref, the second is start{B}, B is then off
\* the queue, and both events have come once nothing is pending.
C12_MissingRefFallsBack ==
    C12_Pre =>
        /\ Len(history) >= 1 => history[1] = <<"error", arg0>>
        /\ Len(history) >= 2 => history[2] = <<"start", Head(queue0)>>
        /\ Len(history) = 2 => audioQueue = Tail(queue0)
        /\ nOps = 1 /\ Quiescent => Len(history) >= 2

\* the error for the missing file has been followed by the start of B
C12_Witness == C12_Pre /\ Len(history) = 2 /\ last[1] = "open" /\ currentTrack = Head(queue0)

RECURSIVE ExpectedErrors(_)
\* error{m1}, ..., error{mn}, queue-end
ExpectedErrors(q) ==
    IF q = <<>> THEN << <<"queue-end", NULL>> >>
    ELSE << <<"error", Head(q)>> >> \o ExpectedErrors(Tail(q))

\* play() on a queue whose entries are all missing files
C13_Pre ==
    /\ binOk
    /\ arg0 = NoRef
    /\ \A k \in 1..Len(queue0) : queue0[k] \in MissingTracks

\* the run is over: every error and the queue-end emitted, queue empty
C13_Done ==
    /\ Quiescent
    /\ history = ExpectedErrors(queue0)
    /\ audioQueue = <<>>

\* C13: play() on a queue of n missing files emits the n errors in queue
\* order and then queue-end, never opens a decoder or a sink nor sets a
\* current track, and comes to rest with all these events emitted and the
\* queue empty.
C13_AllMissingDrains ==
    /\ [](C13_Pre =>
            /\ Len(history) <= Len(ExpectedErrors(queue0))
            /\ history = SubSeq(ExpectedErrors(queue0), 1, Len(history))
            /\ \A i \in Slots : sess[i] = Free
            /\ ~isPlaying /\ currentTrack = NULL /\ speaker = 0 /\ ffmpegCommand = 0
            /\ nOps = 1 /\ Quiescent => C13_Done)
    /\ <>(C13_Pre => C13_Done)

\* a queue of two different missing files has drained
C13_Witness ==
    /\ C13_Pre
    /\ Len(queue0) >= 2
    /\ queue0[1] # queue0[2]
    /\ C13_Done

\* C14: no play() promise is ever rejected.
C14_NoRejectedPlay == ~playRejected

\* idle: nothing playing, no track, no decoder, no sink, no progress timer
Idle ==
    /\ ~isPlaying
    /\ ~isPaused
    /\ currentTrack = NULL
    /\ ffmpegCommand = 0
    /\ speaker = 0
    /\ startTime = 0
    /\ ~progressInterval

\* every probe that is pending will fail
OnlyUnreadableProbed ==
    \A t \in Tracks : probing[t] > 0 => ~probeOk(t)

\* C15: when the probe fails, or the setup after it throws, the step emits
\* exactly one error event, leaves the controller idle and leaves the queue
\* as it is.
C15_SetupFailureCleansUp ==
    [][(last'[1] = "probed" /\ listening /\ (OnlyUnreadableProbed \/ Emitted("error")'))
        => /\ Len(emitted') = 1
           /\ emitted'[1][1] = "error"
           /\ Idle'
           /\ audioQueue' = audioQueue]_vars

\* the probe of an unreadable file has just failed, entries remain queued
C15_Witness ==
    /\ last[1] = "probed"
    /\ emitted = << <<"error", "probe">> >>
    /\ audioQueue # <<>>

\* C16: a sink 'error' callback changes nothing and emits nothing exactly
\* when the latch is set and the code is write-after-end; otherwise it emits
\* one error event and leaves the controller idle.
C16_SinkErrorSuppressedIff ==
    [][(last'[1] \in {"sink_wae", "sink_error"} /\ listening)
        => IF isStoppingIntentionally /\ last'[1] = "sink_wae"
           THEN /\ emitted' = <<>>
                /\ killObs' = {}
                /\ UNCHANGED <<audioQueue, isPlaying, isPaused, currentTrack,
                               ffmpegCommand, speaker, startTime, progressInterval,
                               isStoppingIntentionally, cfgQ, probing, timers>>
           ELSE /\ Len(emitted') = 1
                /\ emitted'[1][1] = "error"
                /\ Idle']_vars

\* a device error with the latch set has been reported
C16_Witness ==
    /\ last[1] = "sink_error"
    /\ isStoppingIntentionally
    /\ Emitted("error")

\* the state after _cleanup(), its kill() and end() calls forgotten
Cleaned(s) == [cleanup(s) EXCEPT !.killObs = {}]

\* C17: after one _cleanup() the progress timer is stopped, the decoder and
\* sink references are null, currentTrack is null, isPlaying and isPaused
\* are false, startTime is 0; a second _cleanup() issues no kill() and no
\* end() and changes nothing.
C17_CleanupIdempotent ==
    LET c == Cleaned(State)
    IN  /\ ~c.progressInterval
        /\ c.ffmpegCommand = 0
        /\ c.speaker = 0
        /\ c.currentTrack = NULL
        /\ ~c.isPlaying
        /\ ~c.isPaused
        /\ c.startTime = 0
        /\ cleanup(c) = c

\* a session with decoder, sink and progress timer, for _cleanup() to end
C17_Witness ==
    /\ isPlaying
    /\ ffmpegCommand # 0
    /\ speaker # 0
    /\ progressInterval
    /\ cleanup(State).killObs # {}

\* the files getNext() has returned since the last clear()
Returned == [k \in 1..Len(history) |-> history[k][2]]

\* C18: the files returned by getNext(), followed by the files still
\* queued, are the files added, in the order added; the length of list() is
\* the number added minus the number removed; getNext() on an empty queue
\* returns the absent value and on a non-empty queue the file it removed.
C18_QueueFifo ==
    /\ Returned \o audioQueue = queue0
    /\ Len(list(audioQueue).items) = Len(queue0) - Len(history)
    /\ last[1] = "getNext" /\ last[2] => returned = NULL /\ audioQueue = <<>>
    /\ last[1] = "getNext" /\ ~last[2] => returned = Returned[Len(Returned)]

\* two different files have been added and taken out, the first one first
C18_Witness ==
    /\ last[1] = "getNext"
    /\ Len(history) = 2
    /\ Returned[1] # Returned[2]
    /\ Returned = SubSeq(queue0, 1, 2)

\* C19: peek() and list() leave the queue as it is, peek() returns what the
\* next getNext() returns, and a change made to the array returned by list()
\* leaves the queue as it is.
C19_PeekListPure ==
    [][last'[1] \in {"peek", "list", "mutate"}
        => /\ audioQueue' = audioQueue
           /\ last'[1] = "peek" => returned' = getNextValue(audioQueue')
           /\ last'[1] = "list" => snapshot'.items = audioQueue]_vars

\* the caller has changed the array from list() of a non-empty queue
C19_Witness ==
    /\ last[1] = "mutate"
    /\ audioQueue # <<>>
    /\ snapshot.items # audioQueue

\* what a handler's result makes of the controller: events, kill() and end()
\* calls, session fields, latch, resources, queue, pending work
Outcome(s) ==
    <<s.emitted, s.killObs, s.queue, s.isPlaying, s.isPaused, s.currentTrack,
      s.ffmpegCommand, s.speaker, s.startTime, s.progressInterval, s.latch,
      s.configured, s.listening, collect(s).sess, s.cfgQ, s.probing, s.timers>>

\* the same of the current state
Observed ==
    <<emitted, killObs, audioQueue, isPlaying, isPaused, currentTrack,
      ffmpegCommand, speaker, startTime, progressInterval, isStoppingIntentionally,
      isFFmpegConfigured, listening, sess, cfgQ, probing, timers>>

\* C20: a call of pause() emits the events and yields the state that stop()
\* yields from the same state.
C20_PauseIsStop ==
    [][Called("pause") => Observed' = Outcome(stop(State))]_vars

\* pause() has just stopped a playing track
C20_Witness == last[1] = "pause" /\ Emitted("stop") /\ killObs # {}

\* C21: a resume() that follows a pause() which stopped a track restarts
\* that track: it calls play() with the track the pause() stopped.
C21_ResumeRestartsPaused ==
    [][(Called("resume") /\ last[1] = "pause" /\ Emitted("stop"))
        => cfgQ' = Append(cfgQ, emitted[1][2])]_vars

\* the step tore the session down: stop(), an error, a natural end, destroy()
TornDown ==
    \/ last[1] = "destroy"
    \/ Emitted("stop")
    \/ Emitted("end")
    \/ Emitted("error")

\* C22: a progress event is emitted only from a state with isPlaying true,
\* isPaused false and the interval set; the interval is set only by a sink
\* 'open' step; after every teardown step the interval is not set.
C22_ProgressOnlyWhilePlaying ==
    /\ [][Emitted("progress")' => isPlaying /\ ~isPaused /\ progressInterval]_vars
    /\ [][(~progressInterval /\ progressInterval') => last'[1] = "open"]_vars
    /\ [](TornDown => ~progressInterval)

\* a progress event has just been emitted for the playing track
C22_Witness ==
    /\ last[1] = "tick"
    /\ emitted = << <<"progress", currentTrack>> >>
    /\ currentTrack # NULL

\* C23: the latch goes from set to clear only in the continuation of play()
\* that has resolved an existing track.
C23_LatchClearedOnlyInPlay ==
    [][(isStoppingIntentionally /\ ~isStoppingIntentionally')
        => last'[1] = "configured" /\ isPlaying']_vars

\* a callback of a Speaker or ffmpeg command that a stop() or skip() tore down
LateCallback ==
    /\ last[2]
    /\ last[1] \in {"close", "ffmpeg_error", "ffmpeg_end", "sink_wae"}

\* C24: a callback of the pair torn down by skip() that is delivered when the
\* next track has been set up emits no end and no error event, leaves the
\* new session in place and leaves the queue as it is.
C24_LateCallbackSuppressed ==
    [][(LateCallback' /\ isPlaying)
        => /\ ~Emitted("end")'
           /\ ~Emitted("error")'
           /\ isPlaying'
           /\ currentTrack' = currentTrack
           /\ speaker' = speaker
           /\ audioQueue' = audioQueue]_vars

\* C25: every end event carries a track, and comes from the 'close' of a sink
\* while that track is the current one and playing.
C25_EndOnlyForNaturalEnd ==
    [][Emitted("end")'
        => /\ last'[1] = "close"
           /\ isPlaying
           /\ currentTrack # NULL
           /\ emitted'[1] = <<"end", currentTrack>>]_vars

\* C26: a decoder 'error' callback delivered while the latch is set emits
\* nothing, issues no kill() or end(), and leaves every field, the latch
\* included, as it is.
C26_DecoderErrorSuppressed ==
    [][(last'[1] = "ffmpeg_error" /\ isStoppingIntentionally)
        => /\ emitted' = <<>>
           /\ killObs' = {}
           /\ isStoppingIntentionally'
           /\ UNCHANGED <<audioQueue, isPlaying, isPaused, currentTrack, ffmpegCommand,
                          speaker, startTime, progressInterval, cfgQ, probing, timers>>]_vars

\* the 'error' of a killed decoder has just been suppressed
C26_Witness ==
    /\ last = <<"ffmpeg_error", TRUE>>
    /\ isStoppingIntentionally
    /\ emitted = <<>>

\* C27: a play() whose configuration fails removes no track, creates no
\* Speaker and no command, emits nothing and leaves the controller idle with
\* the latch as it was.
C27_ResolutionFailureNoEffect ==
    [][(last'[1] = "configured" /\ ~configureOk(State))
        => /\ emitted' = <<>>
           /\ Idle'
           /\ \A i \in Slots : sess'[i] = Free
           /\ UNCHANGED <<audioQueue, isStoppingIntentionally, timers, probing>>]_vars

\* a play() has failed to configure, with tracks queued
C27_Witness ==
    /\ last[1] = "configured"
    /\ playRejected
    /\ audioQueue # <<>>

\* the current track's decoder has exited by itself and its sink is closing
NaturalEndPending ==
    /\ isPlaying
    /\ speaker # 0
    /\ sess[speaker].sink = "ending"
    /\ sess[speaker].dec \in {"exited", "done"}

\* C28: the continuation of a play(ref) for an existing file makes ref the
\* current track and leaves the queue as it is; the queue changes only by
\* losing its head, and only in the continuation of a play() without a track
\* (the retry after a missing file is one) or at the 'close' that ends a
\* track whose decoder has finished by itself.
C28_QueueChangedOnlyByGetNext ==
    /\ [][(last'[1] = "configured" /\ configureOk(State)
           /\ Head(cfgQ) # NoRef /\ existsSync(Head(cfgQ)))
          => audioQueue' = audioQueue /\ currentTrack' = Head(cfgQ)]_vars
    /\ [][audioQueue' # audioQueue
          => /\ audioQueue' = Tail(audioQueue)
             /\ \/ last'[1] = "configured" /\ Head(cfgQ) = NoRef
                \/ last'[1] = "close" /\ NaturalEndPending]_vars

\* custom paths if both are set and exist, else native if both commands are
\* on the PATH, else failure
ByPriority ==
    IF customBinariesExist(detector).ffmpeg /\ customBinariesExist(detector).ffprobe
    THEN CustomPathsOf(detector)
    ELSE IF onPath["ffmpeg"] /\ onPath["ffprobe"] THEN NativePaths
    ELSE Throws

\* C29: whatever calls came before, detectFFmpegPaths() returns the custom
\* paths when both custom binaries are set and exist, otherwise the native
\* ones when both are on the PATH, otherwise it fails; a result it returns
\* is the cached one.
C29_DetectByPriority ==
    last[1] = "detect"
        => /\ detected = ByPriority
           /\ detected # Throws => detector.cachedPaths = detected

\* C30: between any two handlers isPlaying is true exactly when currentTrack
\* is not null: hasTrack() equals isPlaying, and getCurrentProgress() is 0
\* when no track is loaded.
C30_PlayingIffTrack ==
    /\ isPlaying <=> currentTrack # NULL
    /\ hasTrack(State) = isPlaying
    /\ ~hasTrack(State) => getCurrentProgress(State) = "0"

\* a stop() has just ended a session: no track, not playing
C30_Witness ==
    /\ last[1] = "stop"
    /\ Emitted("stop")
    /\ ~isPlaying
    /\ currentTrack = NULL

\* C31: the play(next) that auto-advance scheduled for the track it took from
\* the queue is carried out when its timer fires, also when the caller has
\* called play() in between.
C31_ScheduledTrackPlayed ==
    [][(last'[1] = "timer" /\ Head(timers) # NoRef /\ quiet = "no")
        => cfgQ' = Append(cfgQ, Head(timers))]_vars

\* every probe that is pending will succeed
OnlyPlayableProbed ==
    \A t \in Tracks : probing[t] > 0 => probeOk(t)

\* C32: when the probe of a play() resolves after the session has been torn
\* down, no Speaker and no command is created, nothing is emitted and the
\* controller stays idle.
C32_StopCancelsLoading ==
    [][(last'[1] = "probed" /\ ~isPlaying /\ ~isPaused /\ OnlyPlayableProbed /\ listening)
        => /\ sess' = sess
           /\ emitted' = <<>>
           /\ Idle']_vars

\* the events of the step that carry a track
TrackEvents ==
    {k \in 1..Len(emitted) : emitted[k][1] \in {"start", "stop", "end", "progress"}}

\* C33: every start, stop, end and progress event carries a track, and a
\* start event carries the track of a Speaker that is open.
C33_EventsCarryTrack ==
    /\ \A k \in TrackEvents : emitted[k][2] # NULL
    /\ last[1] = "open" /\ Emitted("start")
        => \E i \in Slots : sess[i].sink = "open" /\ sess[i].track = emitted[1][2]

\* C34: a step that emits queue-end leaves the queue empty, and no decoder
\* and no sink is open.
C34_QueueEndMeansEmpty ==
    Emitted("queue-end")
        => /\ audioQueue = <<>>
           /\ OpenDecoders = {}
           /\ OpenSinks = {}

====
